---- MODULE Spec2Model ----
(***************************************************************************)
(* image-rename: the date-index collector, the tag scanner, the tag        *)
(* resolver and the ApplyPattern loop of main.go, as state machines.       *)
(*                                                                         *)
(* A Go string is a sequence of one-character strings, a Go map is a       *)
(* function whose DOMAIN is the set of keys present, a time.Time is a      *)
(* record of its wall-clock fields, its location name and its zone offset. *)
(***************************************************************************)
EXTENDS Bags, FiniteSets, Integers, Sequences, TLC

VARIABLES
    collector,        \* the DateIndexCollector of the run
    adds,             \* the timestamps passed to Add so far, as a bag
    files,            \* ApplyPattern's files argument (paths)
    outputFilePattern,\* ApplyPattern's outputFilePattern argument
    fileTags,         \* ApplyPattern's fileTags argument
    dryRun,           \* ArgsDryRun()
    pc,               \* position of the running function
    fileIdx,          \* 1-based position of the range loop over files
    tagIdx,           \* 1-based position of the range loop over fileTags
    fileCaptureTime,  \* the local of ApplyPattern
    exifData,         \* the local of ApplyPattern; NilExif or Exif(m)
    captureErr,       \* the err IncrementCaptureIndex returned for the file
    outputFilename,   \* the local of ApplyPattern
    outputs,          \* what was printed or renamed so far, in order
    result,           \* what ApplyPattern returned
    scan,             \* the locals of ExtractFileOutputTags
    repl,             \* the chain of ReplaceTagInPattern calls
    gtv               \* the locals of GetTagValue

vars == <<collector, adds, files, outputFilePattern, fileTags, dryRun, pc,
          fileIdx, tagIdx, fileCaptureTime, exifData, captureErr,
          outputFilename, outputs, result, scan, repl, gtv>>

(***************************************************************************)
(* Bounds of the model.                                                    *)
(***************************************************************************)
MaxAdds == 8
MaxFiles == 3
MaxPatternLen == 5
MaxPieces == 3
MaxReplaceCalls == 2
MaxAlts == 3

Nil == "nil"

(***************************************************************************)
(* Strings.                                                                *)
(***************************************************************************)
DigitChars == <<"0", "1", "2", "3", "4", "5", "6", "7", "8", "9">>

IsDigit(c) == \E i \in 1..10 : DigitChars[i] = c

DigitVal(c) == (CHOOSE i \in 1..10 : DigitChars[i] = c) - 1

\* The value of a string of decimal digits.
RECURSIVE Atoi(_)
Atoi(s) == IF s = <<>> THEN 0
           ELSE 10 * Atoi(SubSeq(s, 1, Len(s) - 1)) + DigitVal(s[Len(s)])

AllDigits(s) == \A i \in 1..Len(s) : IsDigit(s[i])

RECURSIVE NatToStr(_)
NatToStr(n) == IF n < 10 THEN <<DigitChars[n + 1]>>
               ELSE NatToStr(n \div 10) \o <<DigitChars[(n % 10) + 1]>>

\* strconv.Itoa, strconv.FormatInt(n, 10)
Itoa(n) == IF n < 0 THEN <<"-">> \o NatToStr(0 - n) ELSE NatToStr(n)

RECURSIVE Zeros(_)
Zeros(k) == IF k <= 0 THEN <<>> ELSE <<"0">> \o Zeros(k - 1)

\* fmt.Sprintf("%0<w>d", n): the sign first, then zeros up to the width.
PadInt(n, w) ==
    IF n < 0
    THEN <<"-">> \o Zeros(w - 1 - Len(NatToStr(0 - n))) \o NatToStr(0 - n)
    ELSE Zeros(w - Len(NatToStr(n))) \o NatToStr(n)

\* appendInt of package time: the sign first, then the digits with zeros
\* up to the width; the sign does not count in the width.
AppendInt(n, w) ==
    LET digits == NatToStr(IF n < 0 THEN 0 - n ELSE n)
    IN (IF n < 0 THEN <<"-">> ELSE <<>>)
       \o Zeros(w - Len(digits)) \o digits

HasPrefixAt(s, i, old) ==
    /\ i + Len(old) - 1 <= Len(s)
    /\ \A k \in 1..Len(old) : s[i + k - 1] = old[k]

\* strings.Index, 1-based, 0 when absent, searching from position from.
IndexFrom(s, old, from) ==
    LET at == {i \in from..Len(s) + 1 : HasPrefixAt(s, i, old)}
    IN IF at = {} THEN 0 ELSE CHOOSE i \in at : \A j \in at : i <= j

\* strings.Contains
Contains(s, old) == IndexFrom(s, old, 1) # 0

\* strings.Replace(s, old, new, -1) for a non-empty old: the occurrences
\* are found left to right and do not overlap.
RECURSIVE ReplaceAll(_, _, _)
ReplaceAll(s, old, new) ==
    LET i == IndexFrom(s, old, 1)
    IN IF i = 0 THEN s
       ELSE SubSeq(s, 1, i - 1) \o new
            \o ReplaceAll(SubSeq(s, i + Len(old), Len(s)), old, new)

\* strings.Split(s, sep) for a one-character sep.
RECURSIVE Split(_, _)
Split(s, sep) ==
    LET i == IndexFrom(s, <<sep>>, 1)
    IN IF i = 0 THEN <<s>>
       ELSE <<SubSeq(s, 1, i - 1)>> \o Split(SubSeq(s, i + 1, Len(s)), sep)

(***************************************************************************)
(* The names the code compares tags and properties with.                   *)
(***************************************************************************)
S_File == <<"F", "i", "l", "e">>
S_Index == <<"I", "n", "d", "e", "x">>
S_IndexByCaptureYear ==
    <<"I", "n", "d", "e", "x", "B", "y", "C", "a", "p", "t", "u", "r", "e",
      "Y", "e", "a", "r">>
S_IndexByCaptureMonth ==
    <<"I", "n", "d", "e", "x", "B", "y", "C", "a", "p", "t", "u", "r", "e",
      "M", "o", "n", "t", "h">>
S_IndexByCaptureDate ==
    <<"I", "n", "d", "e", "x", "B", "y", "C", "a", "p", "t", "u", "r", "e",
      "D", "a", "t", "e">>
S_Extension == <<"E", "x", "t", "e", "n", "s", "i", "o", "n">>
S_Name == <<"N", "a", "m", "e">>
S_ModTime == <<"M", "o", "d", "T", "i", "m", "e">>
S_Size == <<"S", "i", "z", "e">>
S_Year == <<"Y", "e", "a", "r">>
S_Month == <<"M", "o", "n", "t", "h">>
S_Day == <<"D", "a", "y">>
S_Hour == <<"H", "o", "u", "r">>
S_Minute == <<"M", "i", "n", "u", "t", "e">>
S_Second == <<"S", "e", "c", "o", "n", "d">>
S_Nanosecond == <<"N", "a", "n", "o", "s", "e", "c", "o", "n", "d">>
S_Unix == <<"U", "n", "i", "x">>
S_Weekday == <<"W", "e", "e", "k", "d", "a", "y">>
S_Offset == <<"O", "f", "f", "s", "e", "t">>
S_DateTime == <<"D", "a", "t", "e", "T", "i", "m", "e">>
S_DateTimeOriginal ==
    <<"D", "a", "t", "e", "T", "i", "m", "e", "O", "r", "i", "g", "i", "n",
      "a", "l">>
S_DateTimeDigitized ==
    <<"D", "a", "t", "e", "T", "i", "m", "e", "D", "i", "g", "i", "t", "i",
      "z", "e", "d">>
S_Make == <<"M", "a", "k", "e">>

\* "{" + tag + "}"
Braced(tag) == <<"{">> \o tag \o <<"}">>

\* tag + "." + property
Dotted(tag, property) == tag \o <<".">> \o property

DefaultFileOutputPattern ==
    Braced(Dotted(S_DateTime, S_Year)) \o Braced(Dotted(S_DateTime, S_Month))
    \o Braced(Dotted(S_DateTime, S_Day)) \o <<"_">> \o Braced(S_Make)
    \o <<"_">> \o Braced(Dotted(S_File, S_IndexByCaptureDate)) \o <<".">>
    \o Braced(Dotted(S_File, S_Extension))


(***************************************************************************)
(* Timestamps: time.Time as the code uses it.                              *)
(***************************************************************************)
UTCName == <<"U", "T", "C">>
LocalName == <<"L", "o", "c", "a", "l">>

\* time.Time: wall-clock fields in the value's own location, the location's
\* name and its offset east of UTC in seconds.
MkTime(y, mo, d, h, mi, s, ns, loc, off) ==
    [year |-> y, month |-> mo, day |-> d, hour |-> h, minute |-> mi,
     second |-> s, nsec |-> ns, loc |-> loc, offset |-> off]

\* var timestamp time.Time: January 1, year 1, 00:00:00 UTC.
ZeroTime == MkTime(1, 1, 1, 0, 0, 0, 0, UTCName, 0)

IsLeap(y) == y % 4 = 0 /\ (y % 100 # 0 \/ y % 400 = 0)

DaysIn(mo, y) ==
    IF mo = 2 THEN (IF IsLeap(y) THEN 29 ELSE 28)
    ELSE IF mo \in {4, 6, 9, 11} THEN 30 ELSE 31

\* Days from 1970-01-01 to the civil date y-mo-d.
DaysFromCivil(y, mo, d) ==
    LET yy == IF mo <= 2 THEN y - 1 ELSE y
        era == yy \div 400
        yoe == yy - era * 400
        mp == IF mo > 2 THEN mo - 3 ELSE mo + 9
        doy == (153 * mp + 2) \div 5 + d - 1
        doe == yoe * 365 + yoe \div 4 - yoe \div 100 + doy
    IN era * 146097 + doe - 719468

\* Time.Unix
UnixOf(t) ==
    DaysFromCivil(t.year, t.month, t.day) * 86400
    + t.hour * 3600 + t.minute * 60 + t.second - t.offset

WeekdayNames ==
    <<<<"S", "u", "n", "d", "a", "y">>,
      <<"M", "o", "n", "d", "a", "y">>,
      <<"T", "u", "e", "s", "d", "a", "y">>,
      <<"W", "e", "d", "n", "e", "s", "d", "a", "y">>,
      <<"T", "h", "u", "r", "s", "d", "a", "y">>,
      <<"F", "r", "i", "d", "a", "y">>,
      <<"S", "a", "t", "u", "r", "d", "a", "y">>>>

\* Time.Weekday, printed with %v.
WeekdayOf(t) ==
    WeekdayNames[((DaysFromCivil(t.year, t.month, t.day) + 4) % 7) + 1]

\* Time.Format(time.RFC3339): "2006-01-02T15:04:05Z07:00". The zone is Z
\* for the offset 0; otherwise the offset in whole minutes, truncated
\* towards zero, gives the sign, the hours and the minutes.
FormatRFC3339(t) ==
    LET a == IF t.offset < 0 THEN 0 - t.offset ELSE t.offset
        absZone == a \div 60
        negative == t.offset < 0 /\ absZone > 0
        zone == IF t.offset = 0 THEN <<"Z">>
                ELSE <<IF negative THEN "-" ELSE "+">>
                     \o AppendInt(absZone \div 60, 2) \o <<":">>
                     \o AppendInt(absZone % 60, 2)
    IN AppendInt(t.year, 4) \o <<"-">> \o AppendInt(t.month, 2) \o <<"-">>
       \o AppendInt(t.day, 2) \o <<"T">> \o AppendInt(t.hour, 2) \o <<":">>
       \o AppendInt(t.minute, 2) \o <<":">> \o AppendInt(t.second, 2) \o zone

\* parseNanoseconds: the digits after the separator, at most nine of them,
\* scaled to nanoseconds.
ParseFraction(frac) ==
    LET digits == IF Len(frac) > 9 THEN SubSeq(frac, 1, 9) ELSE frac
        RECURSIVE Scale(_, _)
        Scale(n, k) == IF k <= 0 THEN n ELSE Scale(n * 10, k - 1)
    IN Scale(Atoi(digits), 9 - Len(digits))

\* cutspace: the first position from i on that holds no space.
RECURSIVE CutSpace(_, _)
CutSpace(value, i) ==
    IF i <= Len(value) /\ value[i] = " " THEN CutSpace(value, i + 1) ELSE i

\* time.Parse(timestampFormat, value) with timestampFormat
\* "2006:01:02 15:04:05": four digits of year, two of month and day, a run
\* of spaces, one or two digits of hour, two of minute and second, an
\* optional fraction of a second after a period or a comma, and nothing
\* else. The result is in UTC; an error comes with the zero time.
ParseTimestamp(value) ==
    LET bad == [ok |-> FALSE, t |-> ZeroTime]
        n == Len(value)
        headOk == /\ n >= 11
                  /\ AllDigits(SubSeq(value, 1, 4))
                  /\ value[5] = ":"
                  /\ AllDigits(SubSeq(value, 6, 7))
                  /\ value[8] = ":"
                  /\ AllDigits(SubSeq(value, 9, 10))
                  /\ value[11] = " "
        q == CutSpace(value, 11)    \* the position of the hour
    IN IF ~headOk THEN bad
       ELSE IF ~(q <= n /\ IsDigit(value[q])) THEN bad
       ELSE
       LET hlen == IF n >= q + 1 /\ IsDigit(value[q + 1]) THEN 2 ELSE 1
           p == q + hlen    \* the position after the hour
           tailOk == /\ n >= p + 5
                     /\ value[p] = ":"
                     /\ AllDigits(SubSeq(value, p + 1, p + 2))
                     /\ value[p + 3] = ":"
                     /\ AllDigits(SubSeq(value, p + 4, p + 5))
           rest == SubSeq(value, p + 6, n)
           hasFrac == /\ Len(rest) >= 2
                      /\ rest[1] \in {".", ","}
                      /\ IsDigit(rest[2])
           frac == SubSeq(rest, 2, Len(rest))
           y == Atoi(SubSeq(value, 1, 4))
           mo == Atoi(SubSeq(value, 6, 7))
           d == Atoi(SubSeq(value, 9, 10))
           h == Atoi(SubSeq(value, q, q + hlen - 1))
           mi == Atoi(SubSeq(value, p + 1, p + 2))
           s == Atoi(SubSeq(value, p + 4, p + 5))
       IN IF ~tailOk THEN bad
          ELSE IF rest # <<>> /\ ~(hasFrac /\ AllDigits(frac)) THEN bad
          ELSE IF \/ mo < 1 \/ mo > 12
                  \/ d < 1 \/ d > DaysIn(mo, y)
                  \/ h > 23 \/ mi > 59 \/ s > 59 THEN bad
          ELSE [ok |-> TRUE,
                t |-> MkTime(y, mo, d, h, mi, s,
                             IF hasFrac THEN ParseFraction(frac) ELSE 0,
                             UTCName, 0)]

(***************************************************************************)
(* DateIndexCollector.                                                     *)
(***************************************************************************)
\* Reading a key a Go map does not hold gives the zero value.
MapGet(m, k) == IF k \in DOMAIN m THEN m[k] ELSE 0

MapPut(m, k, v) == [x \in DOMAIN m \cup {k} |-> IF x = k THEN v ELSE m[x]]

EmptyMap == <<>>

\* A nil *exif.Exif, and one decoded with the fields m.
NilExif == [isNil |-> TRUE, main |-> EmptyMap]
Exif(m) == [isNil |-> FALSE, main |-> m]

NewDateIndexCollector ==
    [Count |-> 0, ByYear |-> EmptyMap, ByMonth |-> EmptyMap, ByDay |-> EmptyMap]

Len_(dtic) == dtic.Count

\* The day bucket is set to 1 instead of incremented.
AddMutantNoDay(dtic, timestamp) ==
    LET y == timestamp.year
        mo == timestamp.month
        months == IF y \in DOMAIN dtic.ByMonth THEN dtic.ByMonth[y] ELSE EmptyMap
    IN [dtic EXCEPT
          !.Count = dtic.Count + 1,
          !.ByYear = MapPut(dtic.ByYear, y, MapGet(dtic.ByYear, y) + 1),
          !.ByMonth = MapPut(dtic.ByMonth, y,
                             MapPut(months, mo, MapGet(months, mo) + 1)),
          !.ByDay = MapPut(dtic.ByDay, y,
                           MapPut(EmptyMap, mo,
                                  MapPut(EmptyMap, timestamp.day, 1)))]

\* The month map of the year is made anew on every call: the hasYear test
\* is left out.
AddMutantResetMonth(dtic, timestamp) ==
    LET y == timestamp.year
        mo == timestamp.month
        d == timestamp.day
        dmonths == IF y \in DOMAIN dtic.ByDay THEN dtic.ByDay[y] ELSE EmptyMap
        days == IF mo \in DOMAIN dmonths THEN dmonths[mo] ELSE EmptyMap
    IN [dtic EXCEPT
          !.Count = dtic.Count + 1,
          !.ByYear = MapPut(dtic.ByYear, y, MapGet(dtic.ByYear, y) + 1),
          !.ByMonth = MapPut(dtic.ByMonth, y, MapPut(EmptyMap, mo, 1)),
          !.ByDay = MapPut(dtic.ByDay, y,
                           MapPut(dmonths, mo,
                                  MapPut(days, d, MapGet(days, d) + 1)))]

Add(dtic, timestamp) ==
    LET y == timestamp.year
        mo == timestamp.month
        d == timestamp.day
        months == IF y \in DOMAIN dtic.ByMonth THEN dtic.ByMonth[y] ELSE EmptyMap
        dmonths == IF y \in DOMAIN dtic.ByDay THEN dtic.ByDay[y] ELSE EmptyMap
        days == IF mo \in DOMAIN dmonths THEN dmonths[mo] ELSE EmptyMap
    IN [dtic EXCEPT
          !.Count = dtic.Count + 1,
          !.ByYear = MapPut(dtic.ByYear, y, MapGet(dtic.ByYear, y) + 1),
          !.ByMonth = MapPut(dtic.ByMonth, y,
                             MapPut(months, mo, MapGet(months, mo) + 1)),
          !.ByDay = MapPut(dtic.ByDay, y,
                           MapPut(dmonths, mo,
                                  MapPut(days, d, MapGet(days, d) + 1)))]

GetIndexByYear(dtic, timestamp) == MapGet(dtic.ByYear, timestamp.year)

GetIndexByMonth(dtic, timestamp) ==
    IF timestamp.year \in DOMAIN dtic.ByMonth
    THEN LET months == dtic.ByMonth[timestamp.year]
         IN IF timestamp.month \in DOMAIN months
            THEN months[timestamp.month] ELSE 0
    ELSE 0

\* The day is not looked up: the count of the month is returned.
GetIndexByDayMutantMonth(dtic, timestamp) ==
    IF timestamp.year \in DOMAIN dtic.ByMonth
    THEN MapGet(dtic.ByMonth[timestamp.year], timestamp.month)
    ELSE 0

GetIndexByDay(dtic, timestamp) ==
    IF timestamp.year \in DOMAIN dtic.ByDay
    THEN LET months == dtic.ByDay[timestamp.year]
         IN IF timestamp.month \in DOMAIN months
            THEN LET days == months[timestamp.month]
                 IN IF timestamp.day \in DOMAIN days
                    THEN days[timestamp.day] ELSE 0
            ELSE 0
    ELSE 0

(***************************************************************************)
(* The collector on its own: any sequence of Add calls on a fresh          *)
(* collector, as TestDateIndexCollector drives it.                         *)
(***************************************************************************)
Date(y, mo, d) == MkTime(y, mo, d, 0, 0, 0, 0, UTCName, 0)

\* The timestamps the Add calls draw from: the dates of
\* TestDateIndexCollector and a second time of day on one of them.
CollectorTimes ==
    {Date(2015, 1, 1), Date(2016, 1, 1), Date(2016, 1, 2), Date(2016, 1, 3),
     Date(2016, 2, 1), MkTime(2016, 1, 2, 23, 59, 59, 0, UTCName, 0)}

\* The timestamps the getters are asked about: the added ones and some whose
\* year, month or day is never added.
QueryTimes ==
    CollectorTimes \cup
    {Date(2017, 1, 1), Date(2015, 2, 1), Date(2016, 1, 4), Date(2016, 3, 3),
     Date(2015, 1, 2), ZeroTime}

\* The unused parts of the state.
NoBatch ==
    /\ files = <<>>
    /\ outputFilePattern = <<>>
    /\ fileTags = <<>>
    /\ dryRun = TRUE
    /\ pc = "idle"
    /\ fileIdx = 0
    /\ tagIdx = 0
    /\ fileCaptureTime = ZeroTime
    /\ exifData = NilExif
    /\ captureErr = FALSE
    /\ outputFilename = <<>>
    /\ outputs = <<>>
    /\ result = "none"

NoScan == scan = Nil
NoRepl == repl = Nil
NoGtv == gtv = Nil

batchVars == <<files, outputFilePattern, fileTags, dryRun, pc, fileIdx,
               tagIdx, fileCaptureTime, exifData, captureErr, outputFilename,
               outputs, result>>

InitCollector ==
    /\ collector = NewDateIndexCollector
    /\ adds = EmptyBag
    /\ NoBatch /\ NoScan /\ NoRepl /\ NoGtv

CollectorAdd(t) ==
    /\ Len_(collector) < MaxAdds
    /\ collector' = Add(collector, t)
    /\ adds' = adds (+) SetToBag({t})
    /\ UNCHANGED <<batchVars, scan, repl, gtv>>

NextCollector == \E t \in CollectorTimes : CollectorAdd(t)

SpecCollector == InitCollector /\ [][NextCollector]_vars

RECURSIVE SumOver(_, _)
SumOver(S, b) ==
    IF S = {} THEN 0
    ELSE LET x == CHOOSE e \in S : TRUE
         IN b[x] + SumOver(S \ {x}, b)

\* The number of Add calls so far whose timestamp satisfies same(_).
AddsWith(same(_)) == SumOver({a \in DOMAIN adds : same(a)}, adds)

\* C1: after N calls to Add on a fresh collector Len() is N, and for every
\* timestamp t, added or not, GetIndexByYear(t), GetIndexByMonth(t) and
\* GetIndexByDay(t) are the numbers of Add calls so far with the year, the
\* (year, month) and the (year, month, day) of t; 0 for a bucket never added.
C1_CollectorCounts ==
    /\ Len_(collector) = AddsWith(LAMBDA a : TRUE)
    /\ \A t \in QueryTimes :
         /\ GetIndexByYear(collector, t)
              = AddsWith(LAMBDA a : a.year = t.year)
         /\ GetIndexByMonth(collector, t)
              = AddsWith(LAMBDA a : a.year = t.year /\ a.month = t.month)
         /\ GetIndexByDay(collector, t)
              = AddsWith(LAMBDA a : /\ a.year = t.year
                                    /\ a.month = t.month
                                    /\ a.day = t.day)

\* The state TestDateIndexCollector asserts on: 8 adds, 7 in 2016, 6 in
\* January 2016, 1, 2 and 3 on its first three days, none in 2017.
C1_Witness ==
    /\ Len_(collector) = 8
    /\ GetIndexByYear(collector, Date(2016, 1, 1)) = 7
    /\ GetIndexByMonth(collector, Date(2016, 1, 1)) = 6
    /\ GetIndexByDay(collector, Date(2016, 1, 1)) = 1
    /\ GetIndexByDay(collector, Date(2016, 1, 2)) = 2
    /\ GetIndexByDay(collector, Date(2016, 1, 3)) = 3

\* The years, months and days the counters are read at: those of the added
\* timestamps and some never added.
BucketYears == {t.year : t \in QueryTimes}
BucketMonths == {t.month : t \in QueryTimes}
BucketDays == {t.day : t \in QueryTimes}

ByYearAt(dtic, y) == GetIndexByYear(dtic, Date(y, 1, 1))
ByMonthAt(dtic, y, mo) == GetIndexByMonth(dtic, Date(y, mo, 1))
ByDayAt(dtic, y, mo, d) == GetIndexByDay(dtic, Date(y, mo, d))

\* The counters of the collector are sub-partitions of one another.
SubPartitions ==
    \A y \in BucketYears, mo \in BucketMonths, d \in BucketDays :
       /\ ByMonthAt(collector, y, mo) <= ByYearAt(collector, y)
       /\ ByDayAt(collector, y, mo, d) <= ByMonthAt(collector, y, mo)
       /\ ByDayAt(collector, y, mo, d) = ByMonthAt(collector, y, mo) =>
            \A e \in BucketDays \ {d} : ByDayAt(collector, y, mo, e) = 0
       /\ ByMonthAt(collector, y, mo) = ByYearAt(collector, y) =>
            \A n \in BucketMonths \ {mo} : ByMonthAt(collector, y, n) = 0

\* One call of Add: the counters the timestamp matches go up by one, the
\* others stay.
CountedOnce ==
    \E t \in CollectorTimes :
       /\ adds' = adds (+) SetToBag({t})
       /\ \A y \in BucketYears, mo \in BucketMonths, d \in BucketDays :
            /\ ByYearAt(collector', y)
                 = ByYearAt(collector, y) + (IF t.year = y THEN 1 ELSE 0)
            /\ ByMonthAt(collector', y, mo)
                 = ByMonthAt(collector, y, mo)
                   + (IF t.year = y /\ t.month = mo THEN 1 ELSE 0)
            /\ ByDayAt(collector', y, mo, d)
                 = ByDayAt(collector, y, mo, d)
                   + (IF t.year = y /\ t.month = mo /\ t.day = d
                      THEN 1 ELSE 0)

\* C13: in every collector state ByMonth[Y][M] <= ByYear[Y] and
\* ByDay[Y][M][D] <= ByMonth[Y][M], with equality only when no other day of
\* the month, or no other month of the year, has been added; no counter
\* ever decreases, and every Add increments each matching counter exactly
\* once and no other.
C13_SubPartitions ==
    /\ []SubPartitions
    /\ [][CountedOnce]_vars

\* 2015 has one day of one month, 2016 has two months and January 2016 has
\* more than one day.
C13_Witness ==
    /\ ByYearAt(collector, 2015) = 1
    /\ ByMonthAt(collector, 2015, 1) = 1
    /\ ByDayAt(collector, 2015, 1, 1) = 1
    /\ ByMonthAt(collector, 2016, 2) = 1
    /\ ByMonthAt(collector, 2016, 1) = 3
    /\ ByYearAt(collector, 2016) = 4
    /\ ByDayAt(collector, 2016, 1, 2) = 2
    /\ GetIndexByYear(collector, Date(2017, 1, 1)) = 0
    /\ GetIndexByDay(collector, Date(2016, 1, 4)) = 0

(***************************************************************************)
(* ExtractFileOutputTags: the scanner, one rune of the range loop a step.  *)
(***************************************************************************)
\* The locals at entry: tags and tag are nil, state is 0.
ScanStart(filePattern) ==
    [filePattern |-> filePattern, pos |-> 1, state |-> 0, tag |-> Nil,
     tags |-> <<>>, done |-> FALSE, ret |-> <<>>]

\* The tag is appended with the closing brace already written to it.
ScanRuneMutantKeepBrace(sc) ==
    LET r == sc.filePattern[sc.pos]
    IN IF sc.state = 0
       THEN IF r = "{"
            THEN [sc EXCEPT !.tag = <<>>, !.state = 1, !.pos = sc.pos + 1]
            ELSE [sc EXCEPT !.pos = sc.pos + 1]
       ELSE IF r = "}"
            THEN [sc EXCEPT !.tags = Append(sc.tags, Append(sc.tag, r)),
                            !.state = 0,
                            !.tag = Append(sc.tag, r),
                            !.pos = sc.pos + 1]
            ELSE [sc EXCEPT !.tag = Append(sc.tag, r), !.pos = sc.pos + 1]

\* The body of the range loop for the rune at pos.
ScanRune(sc) ==
    LET r == sc.filePattern[sc.pos]
    IN IF sc.state = 0
       THEN IF r = "{"
            THEN [sc EXCEPT !.tag = <<>>, !.state = 1, !.pos = sc.pos + 1]
            ELSE [sc EXCEPT !.pos = sc.pos + 1]
       ELSE IF r = "}"
            THEN [sc EXCEPT !.tags = Append(sc.tags, sc.tag),
                            !.state = 0,
                            !.tag = Append(sc.tag, r),
                            !.pos = sc.pos + 1]
            ELSE [sc EXCEPT !.tag = Append(sc.tag, r), !.pos = sc.pos + 1]

\* The whole call.
RECURSIVE ScanRun(_)
ScanRun(sc) == IF sc.pos > Len(sc.filePattern) THEN sc.tags
               ELSE ScanRun(ScanRune(sc))

ExtractFileOutputTags(filePattern) == ScanRun(ScanStart(filePattern))

PatternAlphabet == {"{", "}", "a", "b"}

BoundedStrings(alphabet, n) == UNION {[1..k -> alphabet] : k \in 0..n}

\* The patterns of the tests and of the examples.
S_aba == Braced(<<"a">>) \o <<"_">> \o Braced(<<"b">>) \o <<"_">> \o Braced(<<"a">>)

S_NoTagsHere == <<"n", "o", " ", "t", "a", "g", "s", " ", "h", "e", "r", "e">>
S_Unterminated ==
    <<"{", "u", "n", "t", "e", "r", "m", "i", "n", "a", "t", "e", "d">>

ScanPatterns ==
    BoundedStrings(PatternAlphabet, MaxPatternLen)
    \cup {DefaultFileOutputPattern, S_aba, S_NoTagsHere, S_Unterminated}

InitExtract ==
    /\ scan \in {ScanStart(p) : p \in ScanPatterns}
    /\ collector = NewDateIndexCollector
    /\ adds = EmptyBag
    /\ NoBatch /\ NoRepl /\ NoGtv

ExtractStep ==
    /\ ~scan.done
    /\ scan.pos <= Len(scan.filePattern)
    /\ scan' = ScanRune(scan)
    /\ UNCHANGED <<collector, adds, batchVars, repl, gtv>>

ExtractReturn ==
    /\ ~scan.done
    /\ scan.pos > Len(scan.filePattern)
    /\ scan' = [scan EXCEPT !.done = TRUE, !.ret = scan.tags]
    /\ UNCHANGED <<collector, adds, batchVars, repl, gtv>>

NextExtract == ExtractStep \/ ExtractReturn

SpecExtract == InitExtract /\ [][NextExtract]_vars

\* The text between each opening brace and the next closing brace, the
\* search for an opening brace resuming after that closing brace.
RECURSIVE TextBetweenBraces(_)
TextBetweenBraces(s) ==
    LET i == IndexFrom(s, <<"{">>, 1)
        j == IF i = 0 THEN 0 ELSE IndexFrom(s, <<"}">>, i + 1)
    IN IF i = 0 \/ j = 0 THEN <<>>
       ELSE <<SubSeq(s, i + 1, j - 1)>>
            \o TextBetweenBraces(SubSeq(s, j + 1, Len(s)))

\* C7: ExtractFileOutputTags returns, in order of occurrence and with
\* duplicates kept, the text between each "{" and the next "}" without the
\* braces: "{a}_{b}_{a}" gives a, b, a; a template without braces gives the
\* empty sequence; a "{" that is never closed gives no tag.
C7_ExtractTags ==
    scan.done =>
      /\ scan.ret = TextBetweenBraces(scan.filePattern)
      /\ \A k \in 1..Len(scan.ret) :
           ~Contains(scan.ret[k], <<"}">>)
      /\ scan.filePattern = S_aba => scan.ret = <<<<"a">>, <<"b">>, <<"a">>>>
      /\ ~Contains(scan.filePattern, <<"{">>) => scan.ret = <<>>
      /\ ~Contains(scan.filePattern, <<"}">>) => scan.ret = <<>>
      /\ scan.filePattern = DefaultFileOutputPattern =>
           scan.ret = <<Dotted(S_DateTime, S_Year), Dotted(S_DateTime, S_Month),
                        Dotted(S_DateTime, S_Day), S_Make,
                        Dotted(S_File, S_IndexByCaptureDate),
                        Dotted(S_File, S_Extension)>>

\* The call on "{a}_{b}_{a}" has returned a, b, a.
C7_Witness ==
    /\ scan.done
    /\ scan.filePattern = S_aba
    /\ scan.ret = <<<<"a">>, <<"b">>, <<"a">>>>

(***************************************************************************)
(* ReplaceTagInPattern, and chains of calls on one pattern as              *)
(* TestReplaceTagInPattern and ApplyPattern make them.                     *)
(***************************************************************************)
\* strings.Replace with n = 1 instead of -1.
ReplaceTagInPatternMutantFirst(inputPattern, tag, value) ==
    LET old == Braced(tag)
        i == IndexFrom(inputPattern, old, 1)
    IN IF i = 0 THEN inputPattern
       ELSE SubSeq(inputPattern, 1, i - 1) \o value
            \o SubSeq(inputPattern, i + Len(old), Len(inputPattern))

ReplaceTagInPattern(inputPattern, tag, value) ==
    ReplaceAll(inputPattern, Braced(tag), value)

S_foo == <<"f", "o", "o">>
S_bar == <<"b", "a", "r">>
S_123 == <<"1", "2", "3">>
S_321 == <<"3", "2", "1">>
S_FooBarFoo ==
    <<"{", "f", "o", "o", "}", "_", "{", "b", "a", "r", "}", "_", "{", "f",
      "o", "o", "}">>
S_123BarFoo ==
    <<"1", "2", "3", "_", "{", "b", "a", "r", "}", "_", "1", "2", "3">>
S_123321123 == <<"1", "2", "3", "_", "3", "2", "1", "_", "1", "2", "3">>

\* The pieces the patterns of the calls are made of.
PatternPieces ==
    {Braced(<<"a">>), Braced(<<"b">>), <<"_">>, <<"{">>, <<"}">>}

RECURSIVE PiecesUpTo(_)
PiecesUpTo(n) ==
    IF n = 0 THEN {<<>>}
    ELSE LET shorter == PiecesUpTo(n - 1)
         IN shorter \cup {p \o q : p \in shorter, q \in PatternPieces}

ReplacePatterns == PiecesUpTo(MaxPieces) \cup {S_FooBarFoo}

\* The (tag, value) pairs the calls draw from.
ReplaceArgs ==
    {<<<<"a">>, <<"x">>>>, <<<<"a">>, <<>>>>, <<<<"a">>, Braced(<<"b">>)>>,
     <<<<"b">>, <<"y">>>>, <<S_foo, S_123>>, <<S_bar, S_321>>}

InitReplace ==
    /\ repl \in {[pattern |-> p, cur |-> p, calls |-> <<>>] :
                   p \in ReplacePatterns}
    /\ collector = NewDateIndexCollector
    /\ adds = EmptyBag
    /\ NoBatch /\ NoScan /\ NoGtv

ReplaceCall(tag, value) ==
    /\ Len(repl.calls) < MaxReplaceCalls
    /\ repl' = [repl EXCEPT
                  !.cur = ReplaceTagInPattern(repl.cur, tag, value),
                  !.calls = Append(repl.calls,
                                   [tag |-> tag, value |-> value,
                                    before |-> repl.cur,
                                    after |-> ReplaceTagInPattern(repl.cur,
                                                                  tag, value)])]
    /\ UNCHANGED <<collector, adds, batchVars, scan, gtv>>

NextReplace == \E a \in ReplaceArgs : ReplaceCall(a[1], a[2])

SpecReplace == InitReplace /\ [][NextReplace]_vars

\* The positions of s where old occurs.
Occurrences(s, old) == {i \in 1..Len(s) : HasPrefixAt(s, i, old)}

\* s read position by position: value where an occurrence of old starts,
\* nothing for the rest of that occurrence, the character of s elsewhere.
RECURSIVE Substituted(_, _, _, _)
Substituted(s, old, value, i) ==
    IF i > Len(s) THEN <<>>
    ELSE (IF i \in Occurrences(s, old) THEN value
          ELSE IF \E p \in Occurrences(s, old) : p < i /\ i < p + Len(old)
               THEN <<>>
               ELSE <<s[i]>>)
         \o Substituted(s, old, value, i + 1)

\* C8: ReplaceTagInPattern replaces every occurrence of "{tag}" with value
\* and leaves all other text, the placeholders of other tags included,
\* unchanged; applied for each tag in turn it substitutes them all:
\* "{foo}_{bar}_{foo}" with foo -> 123 is "123_{bar}_123", then with
\* bar -> 321 "123_321_123".
C8_ReplaceTag ==
    /\ \A k \in 1..Len(repl.calls) :
         LET c == repl.calls[k]
         IN /\ c.after = Substituted(c.before, Braced(c.tag), c.value, 1)
            /\ \A a \in ReplaceArgs :
                 a[1] # c.tag =>
                   Cardinality(Occurrences(c.after, Braced(a[1])))
                     >= Cardinality(Occurrences(c.before, Braced(a[1])))
            /\ c.before = S_FooBarFoo /\ c.tag = S_foo /\ c.value = S_123
                 => c.after = S_123BarFoo
            /\ c.before = S_123BarFoo /\ c.tag = S_bar /\ c.value = S_321
                 => c.after = S_123321123
    /\ repl.cur = (IF repl.calls = <<>> THEN repl.pattern
                   ELSE repl.calls[Len(repl.calls)].after)

\* TestReplaceTagInPattern's two calls have been made.
C8_Witness ==
    /\ repl.pattern = S_FooBarFoo
    /\ Len(repl.calls) = 2
    /\ repl.calls[1].tag = S_foo /\ repl.calls[1].after = S_123BarFoo
    /\ repl.calls[2].tag = S_bar /\ repl.cur = S_123321123

(***************************************************************************)
(* Files and their metadata, as os.Stat and goexif present them.           *)
(*                                                                         *)
(* A file is [exists, name, size, modTime, exif]: os.Stat succeeds when    *)
(* it exists; exif is NilExif when GetExifData fails (os.Open or            *)
(* exif.Decode returns an error, and the *exif.Exif is nil), otherwise     *)
(* Exif(m), m a map from field names to [isString, val], val being what    *)
(* StringVal returns.                                                      *)
(***************************************************************************)
ExifStr(v) == [isString |-> TRUE, val |-> v]
ExifNonStr == [isString |-> FALSE, val |-> <<>>]

\* filepath.Ext of a base name: from its last dot on, empty without a dot.
Ext(name) ==
    LET dots == {i \in 1..Len(name) : name[i] = "."}
    IN IF dots = {} THEN <<>>
       ELSE SubSeq(name, CHOOSE i \in dots : \A j \in dots : j <= i,
                   Len(name))

timestampFields == {S_DateTime, S_DateTimeOriginal, S_DateTimeDigitized}

TimestampProp(timestamp, properties) ==
    IF Len(properties) > 0 /\ properties[1] = S_Year
    THEN Itoa(timestamp.year)
    ELSE IF Len(properties) > 0 /\ properties[1] = S_Month
    THEN PadInt(timestamp.month, 2)
    ELSE IF Len(properties) > 0 /\ properties[1] = S_Day
    THEN PadInt(timestamp.day, 2)
    ELSE IF Len(properties) > 0 /\ properties[1] = S_Hour
    THEN PadInt(timestamp.hour, 2)
    ELSE IF Len(properties) > 0 /\ properties[1] = S_Minute
    THEN PadInt(timestamp.minute, 2)
    ELSE IF Len(properties) > 0 /\ properties[1] = S_Second
    THEN PadInt(timestamp.second, 2)
    ELSE IF Len(properties) > 0 /\ properties[1] = S_Nanosecond
    THEN Itoa(timestamp.nsec)
    ELSE IF Len(properties) > 0 /\ properties[1] = S_Unix
    THEN Itoa(UnixOf(timestamp))
    ELSE IF Len(properties) > 0 /\ properties[1] = S_Weekday
    THEN WeekdayOf(timestamp)
    ELSE IF Len(properties) > 0 /\ properties[1] = S_Offset
    THEN timestamp.loc
    ELSE FormatRFC3339(timestamp)

FileProp(fileMeta, properties) ==
    IF Len(properties) > 0 /\ properties[1] = S_Name THEN fileMeta.name
    ELSE IF Len(properties) > 0 /\ properties[1] = S_ModTime
    THEN TimestampProp(fileMeta.modTime,
                       <<IF Len(properties) > 1 THEN properties[2] ELSE <<>>>>)
    ELSE IF Len(properties) > 0 /\ properties[1] = S_Size
    THEN Itoa(fileMeta.size)
    ELSE <<>>

ParseTagProperties(outputTag) ==
    IF Contains(outputTag, <<".">>)
    THEN LET parts == Split(outputTag, ".")
         IN [tag |-> parts[1], properties |-> Tail(parts)]
    ELSE [tag |-> outputTag, properties |-> <<>>]

\* What a resolver call gives: a value and whether err is non-nil, or the
\* panic of a nil dereference.
Ok(v) == [value |-> v, err |-> FALSE, panic |-> FALSE]
Err == [value |-> <<>>, err |-> TRUE, panic |-> FALSE]
Panic == [value |-> <<>>, err |-> FALSE, panic |-> TRUE]

GetFileTagValue(dtic, captureTime, file, tag, properties) ==
    IF ~file.exists THEN Err
    ELSE IF Len(properties) = 0 THEN Ok(<<>>)
    ELSE IF properties[1] = S_Index THEN Ok(PadInt(Len_(dtic), 6))
    ELSE IF properties[1] = S_IndexByCaptureYear
    THEN Ok(PadInt(GetIndexByYear(dtic, captureTime), 6))
    ELSE IF properties[1] = S_IndexByCaptureMonth
    THEN Ok(PadInt(GetIndexByMonth(dtic, captureTime), 6))
    ELSE IF properties[1] = S_IndexByCaptureDate
    THEN Ok(PadInt(GetIndexByDay(dtic, captureTime), 6))
    ELSE IF properties[1] = S_Extension
    THEN Ok(ReplaceAll(Ext(file.name), <<".">>, <<>>))
    ELSE Ok(FileProp(file, properties))

\* exifData.Get dereferences exifData: on the nil *exif.Exif that
\* GetExifData returns with its error the call panics.
GetExifTagValue(exif, tag, properties) ==
    IF exif.isNil THEN Panic
    ELSE IF tag \notin DOMAIN exif.main THEN Err
    ELSE IF ~exif.main[tag].isString THEN Err
    ELSE IF tag \in timestampFields
    THEN LET parsed == ParseTimestamp(exif.main[tag].val)
         IN IF ~parsed.ok THEN Err
            ELSE IF Len(properties) > 0
            THEN Ok(TimestampProp(parsed.t, <<properties[1]>>))
            ELSE Ok(<<>>)
    ELSE Ok(exif.main[tag].val)

\* One turn of GetTagValue's loop: acc.tagValue is the local tagValue,
\* acc.set whether a turn has assigned it.
GetTagValueAlt(acc, dtic, captureTime, exif, file, outputTag) ==
    LET p == ParseTagProperties(outputTag)
        r == IF p.tag = S_File
             THEN GetFileTagValue(dtic, captureTime, file, p.tag, p.properties)
             ELSE GetExifTagValue(exif, p.tag, p.properties)
    IN IF acc.panic THEN acc
       ELSE IF r.panic THEN [acc EXCEPT !.panic = TRUE]
       ELSE IF r.err THEN acc
       ELSE [acc EXCEPT !.tagValue = r.value, !.set = TRUE]

GtvStart == [tagValue |-> <<>>, set |-> FALSE, panic |-> FALSE]

RECURSIVE GetTagValueLoop(_, _, _, _, _, _, _)
GetTagValueLoop(acc, dtic, captureTime, exif, file, alts, i) ==
    IF i > Len(alts) THEN acc
    ELSE GetTagValueLoop(
             GetTagValueAlt(acc, dtic, captureTime, exif, file, alts[i]),
             dtic, captureTime, exif, file, alts, i + 1)

\* GetTagValue: the err it returns is always nil.
GetTagValue(dtic, captureTime, exif, file, fileTag) ==
    LET acc == GetTagValueLoop(GtvStart, dtic, captureTime, exif, file,
                               Split(fileTag, "|"), 1)
    IN IF acc.panic THEN Panic ELSE Ok(acc.tagValue)

\* GetExifData: nil and the error of os.Open, or what exif.Decode returns:
\* nil and an error, a decoded *exif.Exif and no error, or a decoded
\* *exif.Exif together with the error of a damaged part.
GetExifData(file) ==
    IF ~file.exists THEN [exifData |-> NilExif, err |-> TRUE]
    ELSE [exifData |-> file.exif, err |-> file.decodeErr]

GetFileCaptureTime(file) ==
    LET bad(x) == [timestamp |-> ZeroTime, exifData |-> x, err |-> TRUE]
        g == GetExifData(file)
        x == g.exifData
    IN IF g.err THEN bad(x)
       ELSE LET name == IF S_DateTime \in DOMAIN x.main THEN S_DateTime
                        ELSE IF S_DateTimeDigitized \in DOMAIN x.main
                        THEN S_DateTimeDigitized
                        ELSE S_DateTimeOriginal
            IN IF name \notin DOMAIN x.main THEN bad(x)
               ELSE IF ~x.main[name].isString THEN bad(x)
               ELSE LET parsed == ParseTimestamp(x.main[name].val)
                    IN [timestamp |-> parsed.t, exifData |-> x,
                        err |-> ~parsed.ok]

\* IncrementCaptureIndex, with the collector as Add leaves it.
IncrementCaptureIndex(file, dtic) ==
    LET c == GetFileCaptureTime(file)
    IN [timestamp |-> c.timestamp, exifData |-> c.exifData, err |-> c.err,
        collector |-> IF c.err THEN dtic ELSE Add(dtic, c.timestamp)]

(***************************************************************************)
(* The files and patterns the runs draw from.                              *)
(***************************************************************************)
S_ajpg == <<"a", ".", "j", "p", "g">>
S_bjpg == <<"b", ".", "J", "P", "G">>
S_cpng == <<"c", ".", "t", "a", "r", ".", "p", "n", "g">>
S_djpg == <<"d", ".", "j", "p", "g">>
S_etxt == <<"n", "o", "t", "e", "s">>
S_fjpg == <<"f", ".", "j", "p", "g">>
S_gjpg == <<"g", ".", "j", "p", "g">>
S_hjpg == <<"h", ".", "j", "p", "g">>
S_ijpg == <<"i", ".", "j", "p", "g">>
Raw_20160304a ==
    <<"2", "0", "1", "6", ":", "0", "3", ":", "0", "4", " ", "1", "0", ":",
      "0", "0", ":", "0", "0">>
Raw_20160304b ==
    <<"2", "0", "1", "6", ":", "0", "3", ":", "0", "4", " ", "2", "3", ":",
      "5", "9", ":", "5", "9", ".", "5">>
Raw_20160305 ==
    <<"2", "0", "1", "6", ":", "0", "3", ":", "0", "5", " ", " ", "9", ":",
      "0", "7", ":", "0", "8">>
Raw_20150101 ==
    <<"2", "0", "1", "5", ":", "0", "1", ":", "0", "1", " ", "0", "0", ":",
      "0", "0", ":", "0", "0">>
Raw_00010101 ==
    <<"0", "0", "0", "1", ":", "0", "1", ":", "0", "1", " ", "0", "0", ":",
      "0", "0", ":", "0", "0">>
Raw_Dashes ==
    <<"2", "0", "1", "6", "-", "0", "3", "-", "0", "4", " ", "1", "0", ":",
      "0", "0", ":", "0", "0">>
S_Canon == <<"C", "a", "n", "o", "n">>
S_Foo == <<"F", "o", "o">>
S_Nope == <<"N", "o", "p", "e">>

T_Index == Dotted(S_File, S_Index)
T_ByYear == Dotted(S_File, S_IndexByCaptureYear)
T_ByMonth == Dotted(S_File, S_IndexByCaptureMonth)
T_ByDate == Dotted(S_File, S_IndexByCaptureDate)
T_Extension == Dotted(S_File, S_Extension)

\* A path: whether os.Stat and os.Open succeed on it, what os.Stat tells,
\* and the *exif.Exif and the error exif.Decode returns for its contents.
MkFile(exists, name, size, modTime, exif, decodeErr) ==
    [exists |-> exists, name |-> name, size |-> size, modTime |-> modTime,
     exif |-> exif, decodeErr |-> decodeErr]

\* A last-modification time in a zone two hours east of UTC, and one in UTC.
ModTimeEast == MkTime(2020, 2, 29, 1, 2, 3, 4, LocalName, 7200)
ModTimeUTC == MkTime(1969, 12, 31, 23, 59, 59, 0, LocalName, 0)
ModTimeLMT == MkTime(1900, 1, 1, 0, 0, 0, 0, LocalName, 0 - 52)

\* DateTime, DateTimeOriginal and Make.
FileA ==
    MkFile(TRUE, S_ajpg, 1024, ModTimeEast,
           Exif((S_DateTime :> ExifStr(Raw_20160304a))
                @@ (S_DateTimeOriginal :> ExifStr(Raw_20150101))
                @@ (S_Make :> ExifStr(S_Canon))), FALSE)

\* The same day as FileA, later; no Make.
FileB ==
    MkFile(TRUE, S_bjpg, 0, ModTimeUTC,
           Exif(S_DateTime :> ExifStr(Raw_20160304b)), FALSE)

\* DateTimeDigitized only, the same month as FileA; a Make that reads as a
\* placeholder.
FileC ==
    MkFile(TRUE, S_cpng, 7, ModTimeEast,
           Exif((S_DateTimeDigitized :> ExifStr(Raw_20160305))
                @@ (S_Make :> ExifStr(Braced(T_Extension)))), FALSE)

\* Metadata without any of the three timestamp fields.
FileD ==
    MkFile(TRUE, S_djpg, 5, ModTimeUTC, Exif(S_Make :> ExifStr(S_Canon)), FALSE)

\* A file GetExifData fails on.
FileE == MkFile(TRUE, S_etxt, 12, ModTimeUTC, NilExif, TRUE)

\* A path os.Stat and os.Open fail on.
FileF == MkFile(FALSE, S_fjpg, 0, ZeroTime, NilExif, TRUE)

\* A capture time that is the zero time.Time.
FileG ==
    MkFile(TRUE, S_gjpg, 9, ModTimeEast,
           Exif(S_DateTime :> ExifStr(Raw_00010101)), FALSE)

\* A DateTime that does not parse, a DateTimeDigitized that is no string,
\* a DateTimeOriginal that parses.
FileH ==
    MkFile(TRUE, S_hjpg, 3, ModTimeUTC,
           Exif((S_DateTime :> ExifStr(Raw_Dashes))
                @@ (S_DateTimeDigitized :> ExifNonStr)
                @@ (S_DateTimeOriginal :> ExifStr(Raw_20150101))), FALSE)

\* Metadata that decodes DateTime and Make and comes with the error of a
\* damaged part; a last-modification time 52 s west of UTC.
FileI ==
    MkFile(TRUE, S_ijpg, 2, ModTimeLMT,
           Exif((S_DateTime :> ExifStr(Raw_20160304a))
                @@ (S_Make :> ExifStr(S_Canon))), TRUE)

\* The directory: the paths FilesInDirectoryWithFilter may list, and what
\* each path leads to. f.jpg is a path that is no longer there.
Paths ==
    {"a.jpg", "b.JPG", "c.tar.png", "d.jpg", "notes", "g.jpg", "h.jpg",
     "i.jpg"}

FileAt(filePath) ==
    CASE filePath = "a.jpg" -> FileA
      [] filePath = "b.JPG" -> FileB
      [] filePath = "c.tar.png" -> FileC
      [] filePath = "d.jpg" -> FileD
      [] filePath = "notes" -> FileE
      [] filePath = "f.jpg" -> FileF
      [] filePath = "g.jpg" -> FileG
      [] filePath = "h.jpg" -> FileH
      [] filePath = "i.jpg" -> FileI

\* The lists of files: filepath.Walk visits no path twice.
FileSequences ==
    {fs \in BoundedStrings(Paths, MaxFiles) :
       \A i, j \in 1..Len(fs) : i # j => fs[i] # fs[j]}

\* {File.Index}_{File.IndexByCaptureYear}_{File.IndexByCaptureMonth}_
\* {File.IndexByCaptureDate}.{File.Extension}
PatternIndexes ==
    Braced(T_Index) \o <<"_">> \o Braced(T_ByYear) \o <<"_">>
    \o Braced(T_ByMonth) \o <<"_">> \o Braced(T_ByDate) \o <<".">>
    \o Braced(T_Extension)

\* {DateTime.Year}{DateTime.Month}_{File.IndexByCaptureDate}.{File.Extension}
PatternScenario ==
    Braced(Dotted(S_DateTime, S_Year)) \o Braced(Dotted(S_DateTime, S_Month))
    \o <<"_">> \o Braced(T_ByDate) \o <<".">> \o Braced(T_Extension)

\* {Make}_{File.Index}_{Make}.{File.Extension}
PatternMake ==
    Braced(S_Make) \o <<"_">> \o Braced(T_Index) \o <<"_">> \o Braced(S_Make)
    \o <<".">> \o Braced(T_Extension)

\* {DateTimeOriginal.Year|Nope}{File.Name|Nope.Year|File.Size}
PatternAlternatives ==
    Braced(Dotted(S_DateTimeOriginal, S_Year) \o <<"|">> \o S_Nope)
    \o Braced(Dotted(S_File, S_Name) \o <<"|">> \o Dotted(S_Nope, S_Year)
              \o <<"|">> \o Dotted(S_File, S_Size))

BatchPatterns ==
    {PatternIndexes, PatternScenario, PatternMake, PatternAlternatives}

(***************************************************************************)
(* ApplyPattern, called as main calls it: fileTags are the tags            *)
(* ExtractFileOutputTags finds in the output pattern.                      *)
(***************************************************************************)
Init ==
    /\ files \in FileSequences
    /\ outputFilePattern \in BatchPatterns
    /\ fileTags = ExtractFileOutputTags(outputFilePattern)
    /\ dryRun \in BOOLEAN
    /\ collector = NewDateIndexCollector
    /\ adds = EmptyBag
    /\ pc = "file"
    /\ fileIdx = 1
    /\ tagIdx = 0
    /\ fileCaptureTime = ZeroTime
    /\ exifData = NilExif
    /\ captureErr = FALSE
    /\ outputFilename = <<>>
    /\ outputs = <<>>
    /\ result = "none"
    /\ NoScan /\ NoRepl /\ NoGtv

inputVars == <<files, outputFilePattern, fileTags, dryRun, scan, repl, gtv>>

\* The head of the loop over files: IncrementCaptureIndex, whose err is
\* assigned and never read, and outputFilename := outputFilePattern.
BeginFile ==
    /\ pc = "file"
    /\ fileIdx <= Len(files)
    /\ LET r == IncrementCaptureIndex(FileAt(files[fileIdx]), collector)
       IN /\ collector' = r.collector
          /\ adds' = IF r.err THEN adds ELSE adds (+) SetToBag({r.timestamp})
          /\ fileCaptureTime' = r.timestamp
          /\ exifData' = r.exifData
          /\ captureErr' = r.err
    /\ outputFilename' = outputFilePattern
    /\ tagIdx' = 1
    /\ pc' = "tags"
    /\ UNCHANGED <<inputVars, fileIdx, outputs, result>>

\* One turn of the loop over fileTags.
ResolveTag ==
    /\ pc = "tags"
    /\ tagIdx <= Len(fileTags)
    /\ LET r == GetTagValue(collector, fileCaptureTime, exifData,
                            FileAt(files[fileIdx]), fileTags[tagIdx])
       IN /\ ~r.panic
          /\ outputFilename' =
               ReplaceTagInPattern(outputFilename, fileTags[tagIdx], r.value)
    /\ tagIdx' = tagIdx + 1
    /\ UNCHANGED <<inputVars, collector, adds, pc, fileIdx, fileCaptureTime,
                   exifData, captureErr, outputs, result>>

\* The turn in which GetExifTagValue dereferences a nil exifData: the
\* process dies.
ResolveTagPanics ==
    /\ pc = "tags"
    /\ tagIdx <= Len(fileTags)
    /\ GetTagValue(collector, fileCaptureTime, exifData,
                   FileAt(files[fileIdx]), fileTags[tagIdx]).panic
    /\ result' = "panic"
    /\ pc' = "done"
    /\ UNCHANGED <<inputVars, collector, adds, fileIdx, tagIdx,
                   fileCaptureTime, exifData, captureErr, outputFilename,
                   outputs>>

\* ArgsDryRun(): the name is printed.
PrintDryRun ==
    /\ pc = "tags"
    /\ tagIdx > Len(fileTags)
    /\ dryRun
    /\ outputs' = Append(outputs, [file |-> fileIdx, name |-> outputFilename,
                                   renamed |-> FALSE])
    /\ fileIdx' = fileIdx + 1
    /\ pc' = "file"
    /\ UNCHANGED <<inputVars, collector, adds, tagIdx, fileCaptureTime,
                   exifData, captureErr, outputFilename, result>>

\* os.Rename returns nil.
RenameOk ==
    /\ pc = "tags"
    /\ tagIdx > Len(fileTags)
    /\ ~dryRun
    /\ outputs' = Append(outputs, [file |-> fileIdx, name |-> outputFilename,
                                   renamed |-> TRUE])
    /\ fileIdx' = fileIdx + 1
    /\ pc' = "file"
    /\ UNCHANGED <<inputVars, collector, adds, tagIdx, fileCaptureTime,
                   exifData, captureErr, outputFilename, result>>

\* os.Rename returns an error and the loop goes on to the next file.
RenameFailsMutantContinues ==
    /\ pc = "tags"
    /\ tagIdx > Len(fileTags)
    /\ ~dryRun
    /\ result' = "error"
    /\ fileIdx' = fileIdx + 1
    /\ pc' = "file"
    /\ UNCHANGED <<inputVars, collector, adds, tagIdx, fileCaptureTime,
                   exifData, captureErr, outputFilename, outputs>>

\* os.Rename returns an error, and ApplyPattern returns it.
RenameFails ==
    /\ pc = "tags"
    /\ tagIdx > Len(fileTags)
    /\ ~dryRun
    /\ result' = "error"
    /\ pc' = "done"
    /\ UNCHANGED <<inputVars, collector, adds, fileIdx, tagIdx,
                   fileCaptureTime, exifData, captureErr, outputFilename,
                   outputs>>

\* The loop over files is over: return nil.
ReturnNil ==
    /\ pc = "file"
    /\ fileIdx > Len(files)
    /\ result' = "nil"
    /\ pc' = "done"
    /\ UNCHANGED <<inputVars, collector, adds, fileIdx, tagIdx,
                   fileCaptureTime, exifData, captureErr, outputFilename,
                   outputs>>

Next ==
    \/ BeginFile
    \/ ResolveTag
    \/ ResolveTagPanics
    \/ PrintDryRun
    \/ RenameOk
    \/ RenameFails
    \/ ReturnNil

Spec == Init /\ [][Next]_vars

(***************************************************************************)
(* Properties of ApplyPattern.                                             *)
(***************************************************************************)
CurrentFile == FileAt(files[fileIdx])

\* What GetFileCaptureTime gives for the k-th file of the list.
CaptureTable == [p \in Paths |-> GetFileCaptureTime(FileAt(p))]

CaptureOf(k) == CaptureTable[files[k]]

\* The name field resolves for the file: the metadata decodes, holds the
\* field as a string, and a timestamp field parses.
FieldResolves(file, name) ==
    /\ ~file.exif.isNil
    /\ name \in DOMAIN file.exif.main
    /\ file.exif.main[name].isString
    /\ name \in timestampFields =>
         ParseTimestamp(file.exif.main[name].val).ok

\* The alternative outputTag of a tag resolves for the file.
AlternativeResolves(file, outputTag) ==
    LET name == IF Contains(outputTag, <<".">>)
                THEN SubSeq(outputTag, 1, IndexFrom(outputTag, <<".">>, 1) - 1)
                ELSE outputTag
    IN IF name = S_File THEN file.exists ELSE FieldResolves(file, name)

\* The files up to the k-th whose capture time is determined and agrees
\* with the k-th file's under same(_, _).
CapturedLike(k, same(_, _)) ==
    {j \in 1..k : /\ ~CaptureOf(j).err
                  /\ same(CaptureOf(j).timestamp, CaptureOf(k).timestamp)}

SameYear(a, b) == a.year = b.year
SameMonth(a, b) == a.year = b.year /\ a.month = b.month
SameDay(a, b) == a.year = b.year /\ a.month = b.month /\ a.day = b.day

ValueOf(fileTag) ==
    GetTagValue(collector, fileCaptureTime, exifData, CurrentFile, fileTag)

\* C2: Add is called once per file, in order: when the k-th file is
\* rendered Len() is k and {File.Index} renders as k padded to 6 digits.
C2_IndexIsPosition ==
    pc = "tags" =>
      /\ Len_(collector) = fileIdx
      /\ CurrentFile.exists => ValueOf(T_Index) = Ok(PadInt(fileIdx, 6))

\* C3: for a file whose capture timestamp is determined,
\* {File.IndexByCaptureDate}, {File.IndexByCaptureMonth} and
\* {File.IndexByCaptureYear} render as the 6-digit zero-padded number of
\* files so far, this one included, captured on the same day, in the same
\* month and in the same year.
C3_IndexByCapture ==
    /\ (pc = "tags" /\ ~captureErr) =>
         /\ ValueOf(T_ByDate)
              = Ok(PadInt(Cardinality(CapturedLike(fileIdx, SameDay)), 6))
         /\ ValueOf(T_ByMonth)
              = Ok(PadInt(Cardinality(CapturedLike(fileIdx, SameMonth)), 6))
         /\ ValueOf(T_ByYear)
              = Ok(PadInt(Cardinality(CapturedLike(fileIdx, SameYear)), 6))
         /\ Len(ValueOf(T_ByDate).value) = 6
    /\ (pc = "file" /\ outputs # <<>>) =>
         LET o == outputs[Len(outputs)]
             c == CaptureOf(o.file)
         IN (/\ ~c.err
             /\ FieldResolves(FileAt(files[o.file]), S_DateTime)
             /\ outputFilePattern = PatternScenario) =>
              o.name =
                Itoa(c.timestamp.year) \o PadInt(c.timestamp.month, 2)
                \o <<"_">>
                \o PadInt(Cardinality(CapturedLike(o.file, SameDay)), 6)
                \o <<".">>
                \o ReplaceAll(Ext(FileAt(files[o.file]).name), <<".">>, <<>>)

S_Scenario2 ==
    <<"2", "0", "1", "6", "0", "3", "_", "0", "0", "0", "0", "0", "2", ".",
      "J", "P", "G">>

\* The second file captured on 2016-03-04 was rendered 201603_000002.JPG.
C3_Witness ==
    /\ outputFilePattern = PatternScenario
    /\ Len(outputs) = 2
    /\ ~CaptureOf(1).err
    /\ outputs[2].name = S_Scenario2

\* C5: when every alternative of a tag fails to resolve for a file, the tag
\* resolves to the empty string without ending the run.
C5_AllFailEmpty ==
    (/\ pc = "tags"
     /\ tagIdx <= Len(fileTags)
     /\ \A a \in 1..Len(Split(fileTags[tagIdx], "|")) :
          ~AlternativeResolves(CurrentFile, Split(fileTags[tagIdx], "|")[a]))
    => ValueOf(fileTags[tagIdx]) = Ok(<<>>)

\* C6: a file for which none of DateTime, DateTimeDigitized and
\* DateTimeOriginal resolves ends the run: neither it nor a later file is
\* rendered, printed or renamed.
C6_CaptureErrorAborts ==
    LET unavailable(k) ==
            \A name \in timestampFields : ~FieldResolves(FileAt(files[k]), name)
    IN /\ \A k \in 1..Len(outputs) :
            \A j \in 1..outputs[k].file : ~unavailable(j)
       /\ pc = "tags" => \A j \in 1..fileIdx : ~unavailable(j)

\* C10: once os.Rename fails ApplyPattern has returned: the files before
\* the failing one are renamed, no later file is rendered or renamed, and
\* nothing changes any more.
C10_RenameFailureHalts ==
    /\ [](result = "error" =>
            /\ pc = "done"
            /\ ~dryRun
            /\ fileIdx <= Len(files)
            /\ Len(outputs) = fileIdx - 1
            /\ \A k \in 1..Len(outputs) :
                 outputs[k].file = k /\ outputs[k].renamed)
    /\ [][result = "error" => UNCHANGED vars]_vars
    /\ [][result' = "error" =>
            /\ UNCHANGED <<outputs, collector, fileIdx>>
            /\ result = "none"]_vars

\* os.Rename failed on the second of three files.
C10_Witness ==
    /\ result = "error"
    /\ Len(files) = 3
    /\ fileIdx = 2
    /\ Len(outputs) = 1

\* The order in which GetFileCaptureTime asks for the timestamp fields.
CaptureFieldOrder == <<S_DateTime, S_DateTimeDigitized, S_DateTimeOriginal>>

\* C11: the capture timestamp of a file is that of the first of DateTime,
\* DateTimeDigitized and DateTimeOriginal, in this order, that resolves to
\* a timestamp; it is unavailable only when none of the three does.
C11_FirstCaptureWins ==
    pc = "tags" =>
      LET resolving == {i \in 1..Len(CaptureFieldOrder) :
                          FieldResolves(CurrentFile, CaptureFieldOrder[i])}
      IN IF resolving = {} THEN captureErr
         ELSE LET i == CHOOSE k \in resolving : \A j \in resolving : k <= j
                  raw == CurrentFile.exif.main[CaptureFieldOrder[i]].val
              IN /\ ~captureErr
                 /\ fileCaptureTime = ParseTimestamp(raw).t

\* The files up to the k-th whose capture timestamp is determined.
Captured(k) == {j \in 1..k : ~CaptureOf(j).err}

\* C12: a file whose capture timestamp cannot be determined is still
\* rendered; Add is not called for it, so the collector counts the files
\* with a capture timestamp only; and its {File.IndexByCaptureYear},
\* {File.IndexByCaptureMonth} and {File.IndexByCaptureDate} render 000000
\* whatever files were added before it.
C12_UndeterminedZeroState ==
    pc = "tags" =>
      /\ Len_(collector) = Cardinality(Captured(fileIdx))
      /\ captureErr =>
           /\ \A k \in 1..Len(fileTags) : ~ValueOf(fileTags[k]).panic
           /\ CurrentFile.exists =>
                /\ ValueOf(T_ByYear) = Ok(PadInt(0, 6))
                /\ ValueOf(T_ByMonth) = Ok(PadInt(0, 6))
                /\ ValueOf(T_ByDate) = Ok(PadInt(0, 6))

\* The pattern with every placeholder {tags[k]} replaced by values[k] in
\* one pass from position i on: what a value brings in is not read again.
RECURSIVE SubstituteAtOnce(_, _, _, _)
SubstituteAtOnce(inputPattern, tags, values, i) ==
    IF i > Len(inputPattern) THEN <<>>
    ELSE LET hits == {k \in 1..Len(tags) :
                        HasPrefixAt(inputPattern, i, Braced(tags[k]))}
         IN IF hits = {}
            THEN <<inputPattern[i]>>
                 \o SubstituteAtOnce(inputPattern, tags, values, i + 1)
            ELSE LET k == CHOOSE h \in hits : \A j \in hits : h <= j
                 IN values[k]
                    \o SubstituteAtOnce(inputPattern, tags, values,
                                        i + Len(Braced(tags[k])))

\* C14: the name rendered for a file is the pattern with every {tag}
\* replaced at once by the value the tag resolves to: what one tag's value
\* brings in (a Make that reads {File.Extension}) is not altered by the
\* substitution of another tag.
C14_SimultaneousSubstitution ==
    (pc = "file" /\ outputs # <<>>) =>
      LET o == outputs[Len(outputs)]
          values == [k \in 1..Len(fileTags) |->
                       GetTagValue(collector, fileCaptureTime, exifData,
                                   FileAt(files[o.file]), fileTags[k]).value]
      IN o.name = SubstituteAtOnce(outputFilePattern, fileTags, values, 1)

(***************************************************************************)
(* GetTagValue on its own: one file, one tag, one turn of the loop over    *)
(* the alternatives a step.                                                *)
(***************************************************************************)
AllPaths == Paths \cup {"f.jpg"}

\* The alternatives the tags are made of.
AltSpecs ==
    {Dotted(S_DateTime, S_Year), Dotted(S_DateTimeOriginal, S_Year),
     S_DateTime, Dotted(S_DateTimeDigitized, S_Foo), S_Make, T_Extension}

\* strings.Join(alts, "|")
RECURSIVE JoinAlts(_)
JoinAlts(alts) ==
    IF Len(alts) = 1 THEN alts[1]
    ELSE alts[1] \o <<"|">> \o JoinAlts(Tail(alts))

ResolveTags ==
    {JoinAlts(alts) : alts \in BoundedStrings(AltSpecs, MaxAlts) \ {<<>>}}

\* The collector before the file: fresh, or after one file of 2016-03-04.
ResolveCollectors ==
    {NewDateIndexCollector, Add(NewDateIndexCollector, Date(2016, 3, 4))}

\* The locals of GetTagValue at entry, for the file at filePath as
\* IncrementCaptureIndex leaves it.
GtvEntry(filePath, fileTag, dtic) ==
    LET r == IncrementCaptureIndex(FileAt(filePath), dtic)
    IN [filePath |-> filePath, fileTag |-> fileTag,
        alts |-> Split(fileTag, "|"), i |-> 1, acc |-> GtvStart,
        dtic |-> r.collector, captureTime |-> r.timestamp,
        exifData |-> r.exifData, done |-> FALSE]

InitResolve ==
    /\ gtv \in {GtvEntry(f, t, c) :
                  f \in AllPaths, t \in ResolveTags, c \in ResolveCollectors}
    /\ collector = NewDateIndexCollector
    /\ adds = EmptyBag
    /\ NoBatch /\ NoScan /\ NoRepl

GtvTurn ==
    GetTagValueAlt(gtv.acc, gtv.dtic, gtv.captureTime, gtv.exifData,
                   FileAt(gtv.filePath), gtv.alts[gtv.i])

\* One turn of the loop over the alternatives.
ResolveAlternative ==
    /\ ~gtv.done
    /\ gtv.i <= Len(gtv.alts)
    /\ ~GtvTurn.panic
    /\ gtv' = [gtv EXCEPT !.acc = GtvTurn, !.i = gtv.i + 1]
    /\ UNCHANGED <<collector, adds, batchVars, scan, repl>>

\* The turn that dereferences a nil exifData.
ResolveAlternativePanics ==
    /\ ~gtv.done
    /\ gtv.i <= Len(gtv.alts)
    /\ GtvTurn.panic
    /\ gtv' = [gtv EXCEPT !.acc = GtvTurn, !.done = TRUE]
    /\ UNCHANGED <<collector, adds, batchVars, scan, repl>>

\* return tagValue, nil
ResolveReturn ==
    /\ ~gtv.done
    /\ gtv.i > Len(gtv.alts)
    /\ gtv' = [gtv EXCEPT !.done = TRUE]
    /\ UNCHANGED <<collector, adds, batchVars, scan, repl>>

NextResolve ==
    \/ ResolveAlternative
    \/ ResolveAlternativePanics
    \/ ResolveReturn

SpecResolve == InitResolve /\ [][NextResolve]_vars

\* What the alternative outputTag resolves to on its own.
ResolveAlone(outputTag) ==
    LET p == ParseTagProperties(outputTag)
    IN IF p.tag = S_File
       THEN GetFileTagValue(gtv.dtic, gtv.captureTime, FileAt(gtv.filePath),
                            p.tag, p.properties)
       ELSE GetExifTagValue(gtv.exifData, p.tag, p.properties)

\* The alternatives that resolve without error.
Resolving == {i \in 1..Len(gtv.alts) : LET r == ResolveAlone(gtv.alts[i])
                                       IN ~r.err /\ ~r.panic}

\* C4: GetTagValue tries the alternatives left to right and returns the
\* value of the last one that resolves without error: a failing alternative
\* leaves the value of an earlier success, a later success overwrites it.
C4_LastSuccessWins ==
    /\ (gtv.done /\ Resolving # {}) =>
         /\ ~gtv.acc.panic
         /\ gtv.acc.tagValue =
              ResolveAlone(gtv.alts[CHOOSE i \in Resolving :
                                      \A j \in Resolving : j <= i]).value
    /\ (~gtv.done /\ gtv.i > 1) =>
         LET before == {i \in Resolving : i < gtv.i}
         IN gtv.acc.tagValue =
              (IF before = {} THEN <<>>
               ELSE ResolveAlone(
                      gtv.alts[CHOOSE i \in before :
                                 \A j \in before : j <= i]).value)

TimestampPropNames ==
    {S_Year, S_Month, S_Day, S_Hour, S_Minute, S_Second, S_Nanosecond,
     S_Unix, S_Weekday, S_Offset}

\* C9: for a timestamp field whose raw value decodes and parses, a tag with
\* no property name, or with one that is not recognised, resolves to the
\* full RFC 3339 timestamp: never to the empty string, never to an error.
C9_FullTimestampDefault ==
    LET p == ParseTagProperties(gtv.fileTag)
        file == FileAt(gtv.filePath)
    IN (/\ gtv.done
        /\ Len(gtv.alts) = 1
        /\ p.tag \in timestampFields
        /\ FieldResolves(file, p.tag)
        /\ p.properties = <<>> \/ p.properties[1] \notin TimestampPropNames)
       => /\ ~gtv.acc.panic
          /\ gtv.acc.set
          /\ gtv.acc.tagValue # <<>>
          /\ gtv.acc.tagValue =
               FormatRFC3339(ParseTimestamp(file.exif.main[p.tag].val).t)

====
